---- MODULE Spec2Model ----
(***************************************************************************)
(* Behaviour layer of the portfolio site: ImageLoader (promise-memoized    *)
(* image cache, lazy loading, hover prefetch), the preview slideshow of    *)
(* ContentLoader, and ProjectList (sort / search over the project items).  *)
(* Every event handler is one action; continuations that the browser runs  *)
(* in the microtask checkpoint of a handler are part of that action.       *)
(***************************************************************************)
EXTENDS Integers, Sequences, FiniteSets, TLC

VARIABLES
    \* ---- ImageLoader (src/js/interactions.js) ----
    cache,              \* this.cache : URL -> index into promises, 0 = no entry
    promises,           \* every load promise ever created, in creation order
    ret,                \* the last preloadImage() API call: the promise it returned,
                        \* and whether it started a load
    lazy,               \* the img[data-src] elements
    ioSupported,        \* 'IntersectionObserver' in window
    calls,              \* the preloadImages() calls that were observed: their batches,
                        \* the promises each started batch waits for, their own promise
    gets,               \* the getImage() calls: the load promise and their own promise
    \* ---- ContentLoader preview box (src/js/content-loader.js) ----
    currentImages, currentImageIndex, slideshowInterval, timers,
    isPreviewVisible,
    bg,                 \* previewImg.style.backgroundImage (the URL in it)
    transitioning,      \* previewImg has class 'transitioning'
    imgLoaded,          \* previewImg has class 'loaded'
    dots,               \* the indicator dots: TRUE = has class 'active'
    fades,              \* fade-path Image loads in flight, per URL
    preloadedImages,
    imageLoaderPresent, \* window.imageLoader is set
    supportsHover,      \* matchMedia('(hover: hover)').matches
    ticks,              \* slideshow timer ticks since the last showPreviewBox
    \* ---- ProjectList, the #projectList element, ContentLoader.init ----
    dom,                \* the .project-item children of #projectList, in order
    el,                 \* the elements: data-* attributes, style, listeners
    projects,           \* ProjectList.projects
    currentSort, sortDirection, searchQuery,
    projDone, updDone,  \* loadProjects() / loadUpdates() have completed
    updates,            \* what #updatesContainer shows
    currentPage,        \* Navigation.currentPage
    hovered,            \* the project item under the pointer, 0 = none
    dirBefore           \* sortDirection before the last click, if that click
                        \* toggled the direction

ilVars == <<cache, promises, ret, lazy, ioSupported, calls, gets>>
slVars == <<currentImages, currentImageIndex, slideshowInterval, timers,
            isPreviewVisible, bg, transitioning, imgLoaded, dots, fades,
            preloadedImages, imageLoaderPresent, supportsHover, ticks>>
plVars == <<dom, el, projects, currentSort, sortDirection, searchQuery,
            projDone, updDone, updates, currentPage, hovered, dirBefore>>
vars == <<ilVars, slVars, plVars>>

----------------------------------------------------------------------------
(* Bounds and inputs *)

\* image URLs the page refers to
URLS == {"a.jpg", "b.jpg", "c.jpg"}
NoUrl == ""

\* at most this many image loads are ever started through ImageLoader
MaxLoads == 4

\* number of img[data-src] elements (element 1 is in the page at init,
\* the others are injected later)
NumLazy == 2
LazyImgs == 1..NumLazy
\* loadLazyImage invocations counted per image
MaxRuns == 2
\* data-src values the lazy images carry
LazySrcs == {"a.jpg", "b.jpg"}

\* image URLs of the longer preview lists handed to preloadImages()
BatchUrls == URLS \cup {"d.jpg", "e.jpg"}
\* the url arrays preloadImages() is called with
BatchLists == {<<"a.jpg", "b.jpg", "c.jpg", "d.jpg", "e.jpg">>, <<"e.jpg", "a.jpg", "e.jpg">>}
\* preloadImages() calls observed
MaxCalls == 2
\* at most this many image loads are ever started by them
MaxBatchLoads == 7
\* getImage() calls observed, and the URLs asked for
MaxGets == 2
GetUrls == {"a.jpg", "b.jpg"}

\* fade-path image loads in flight at a time
MaxFades == 2
\* slideshow ticks counted after a showPreviewBox
MaxTicks == 4

\* data-preview lists carried by the [data-preview] elements
PreviewLists == {<<"a.jpg">>, <<"a.jpg", "b.jpg">>, <<"b.jpg", "c.jpg", "a.jpg">>}

----------------------------------------------------------------------------
(* ImageLoader *)

Settled(st) == st \in {"resolved", "rejected"}

\* number of loads of u ever started / failed
Started(u) == Cardinality({p \in DOMAIN promises : promises[p].url = u})
Failed(u) == Cardinality({p \in DOMAIN promises :
                            promises[p].url = u /\ promises[p].st = "rejected"})

\* isCached(url): this.cache.has(url)
isCached(u) == cache[u] # 0

\* preloadImage(src) on the ImageLoader state s = [cache, promises, ret]:
\* the cached promise if there is one, else a new load whose promise is cached
PreloadImageBug(s, u) ==
    [cache    |-> [s.cache EXCEPT ![u] = Len(s.promises) + 1],
     promises |-> Append(s.promises, [url |-> u, st |-> "loading"]),
     ret      |-> Len(s.promises) + 1]

preloadImage(s, u) ==
    IF s.cache[u] # 0
    THEN [s EXCEPT !.ret = s.cache[u]]
    ELSE [cache    |-> [s.cache EXCEPT ![u] = Len(s.promises) + 1],
          promises |-> Append(s.promises, [url |-> u, st |-> "loading"]),
          ret      |-> Len(s.promises) + 1]

ILState == [cache |-> cache, promises |-> promises, ret |-> ret.p]

\* no preloadImage() call has returned yet
NoRet == [p |-> 0, fresh |-> FALSE]

\* room for n more loads
Room(n) == Len(promises) + n <= MaxLoads

\* config.concurrentPreloads
ConcurrentPreloads == 4

SeqSet(q) == {q[k] : k \in DOMAIN q}

RECURSIVE Unique(_)
\* [...new Set(urls)]
Unique(urls) ==
    IF urls = <<>> THEN <<>>
    ELSE LET r == Unique(SubSeq(urls, 1, Len(urls) - 1))
         IN IF urls[Len(urls)] \in SeqSet(r) THEN r ELSE Append(r, urls[Len(urls)])

RECURSIVE FlattenSeq(_)
FlattenSeq(lists) == IF lists = <<>> THEN <<>> ELSE Head(lists) \o FlattenSeq(Tail(lists))

RECURSIVE Batches(_)
\* preloadImages: uniqueUrls.slice(i, i + concurrentPreloads) for i = 0, 4, ...
Batches(urls) ==
    IF Len(urls) <= ConcurrentPreloads
    THEN (IF urls = <<>> THEN <<>> ELSE <<urls>>)
    ELSE <<SubSeq(urls, 1, ConcurrentPreloads)>>
         \o Batches(SubSeq(urls, ConcurrentPreloads + 1, Len(urls)))

RECURSIVE StartBatch(_, _, _, _)
\* batch.map(url => this.preloadImage(url)) on state s: [s, got, started],
\* the promises obtained and those among them whose load this started
StartBatch(s, batch, got, started) ==
    IF batch = <<>> THEN [s |-> s, got |-> got, started |-> started]
    ELSE LET t == preloadImage(s, Head(batch))
         IN StartBatch(t, Tail(batch), got \cup {t.ret},
                       IF s.cache[Head(batch)] = 0 THEN started \cup {t.ret} ELSE started)

\* await Promise.allSettled(...) of the batch started last has to wait
BatchNeverAwaited(s, c) == FALSE

BatchPending(s, c) ==
    /\ c.got # <<>>
    /\ \E p \in c.got[Len(c.got)] : ~Settled(s.promises[p].st)

RECURSIVE Advance(_, _)
\* preloadImages call c runs on from where it stands, as far as it can:
\* batch after batch until one has to be awaited, or to its end
Advance(s, c) ==
    IF c.resolved \/ BatchPending(s, c) THEN [s |-> s, c |-> c]
    ELSE IF Len(c.got) = Len(c.batches) THEN [s |-> s, c |-> [c EXCEPT !.resolved = TRUE]]
    ELSE LET b == StartBatch(s, c.batches[Len(c.got) + 1], {}, {})
         IN Advance(b.s, [c EXCEPT !.got = Append(@, b.got),
                                   !.started = @ \cup b.started])

\* preloadImages(urls) called on state s, up to its first await or its end
NewCall(s, urls) ==
    LET uniqueUrls == SelectSeq(Unique(urls), LAMBDA u : s.cache[u] = 0)
    IN Advance(s, [urls |-> urls, batches |-> Batches(uniqueUrls), got |-> <<>>,
                   started |-> {}, resolved |-> FALSE])

RECURSIVE AdvanceAll(_, _, _)
AdvanceAll(s, cs, i) ==
    IF i > Len(cs) THEN [s |-> s, calls |-> cs]
    ELSE LET r == Advance(s, cs[i])
         IN AdvanceAll(r.s, [cs EXCEPT ![i] = r.c], i + 1)

\* a load has settled, giving state s: the preloadImages calls whose batch
\* is through run on
ResumeCalls(s) ==
    LET r == AdvanceAll(s, calls, 1) IN
      /\ cache' = r.s.cache
      /\ promises' = r.s.promises
      /\ calls' = r.calls

\* loadLazyImage(img) after its await: swap the source in, or mark the error
LazyResumed(l, st) ==
    IF st = "resolved"
    THEN [l EXCEPT !.src = l.dataSrc, !.dataSrc = NoUrl, !.cls = "loaded",
                   !.awaiting = 0]
    ELSE [l EXCEPT !.cls = "load-error", !.awaiting = 0]

\* getImage(url) after its await, or with the cached promise it returned:
\* its own promise follows the load promise
GetResumed(g, st) == [g EXCEPT !.st = st]

\* the continuations of the loadLazyImage and getImage calls awaiting
\* promise p, run when p settles
ResumeAwaiters(p, st) ==
    /\ lazy' = [i \in LazyImgs |->
                IF lazy[i].awaiting = p THEN LazyResumed(lazy[i], st) ELSE lazy[i]]
    /\ gets' = [k \in DOMAIN gets |->
                IF gets[k].p = p /\ gets[k].st = "pending"
                THEN GetResumed(gets[k], st) ELSE gets[k]]

\* a call of the public preloadImage(src, highPriority)
PreloadImageCall(u) ==
    /\ isCached(u) \/ Room(1)
    /\ LET s == preloadImage(ILState, u) IN
         /\ cache' = s.cache
         /\ promises' = s.promises
         /\ ret' = [p |-> s.ret, fresh |-> ~isCached(u)]
    /\ UNCHANGED <<lazy, ioSupported, calls, gets, slVars, plVars>>

\* img.onload of load p: resolve at once, or after img.decode() when present
ImgOnload(p) ==
    /\ p \in DOMAIN promises
    /\ promises[p].st = "loading"
    /\ \E hasDecode \in BOOLEAN :
         IF hasDecode
         THEN /\ promises' = [promises EXCEPT ![p].st = "decoding"]
              /\ UNCHANGED <<cache, lazy, calls, gets>>
         ELSE /\ ResumeCalls([cache |-> cache, ret |-> 0,
                              promises |-> [promises EXCEPT ![p].st = "resolved"]])
              /\ ResumeAwaiters(p, "resolved")
    /\ UNCHANGED <<ret, ioSupported, slVars, plVars>>

\* img.decode() fulfilled or rejected: both callbacks resolve(src)
DecodeSettled(p) ==
    /\ p \in DOMAIN promises
    /\ promises[p].st = "decoding"
    /\ ResumeCalls([cache |-> cache, ret |-> 0,
                    promises |-> [promises EXCEPT ![p].st = "resolved"]])
    /\ ResumeAwaiters(p, "resolved")
    /\ UNCHANGED <<ret, ioSupported, slVars, plVars>>

\* what img.onerror does to the cache
OnerrorCacheKeep(u) == cache

OnerrorCache(u) == [cache EXCEPT ![u] = 0]

\* what img.onerror does to the loads: reject(...), nothing is started
ImgOnerrorRetry(p) ==
    Append([promises EXCEPT ![p].st = "rejected"],
           [url |-> promises[p].url, st |-> "loading"])

ImgOnerrorLoads(p) == [promises EXCEPT ![p].st = "rejected"]

\* img.onerror of load p: drop the cache entry and reject
ImgOnerror(p) ==
    /\ p \in DOMAIN promises
    /\ promises[p].st = "loading"
    /\ ResumeCalls([cache |-> OnerrorCache(promises[p].url), ret |-> 0,
                    promises |-> ImgOnerrorLoads(p)])
    /\ ResumeAwaiters(p, "rejected")
    /\ UNCHANGED <<ret, ioSupported, slVars, plVars>>

\* the loads that preloadImages call c has not come to yet
Pending(c) == Len(FlattenSeq(SubSeq(c.batches, Len(c.got) + 1, Len(c.batches))))

\* loads still to be started by the calls under way
Reserved == Len(FlattenSeq([k \in DOMAIN calls |->
                  FlattenSeq(SubSeq(calls[k].batches, Len(calls[k].got) + 1,
                                    Len(calls[k].batches)))]))

\* a call of the public preloadImages(urls), its promise kept by the caller
PreloadImagesCall(urls) ==
    /\ Len(calls) < MaxCalls
    /\ Len(promises) + Reserved
          + Len(SelectSeq(Unique(urls), LAMBDA u : cache[u] = 0)) <= MaxBatchLoads
    /\ LET r == NewCall(ILState, urls) IN
         /\ cache' = r.s.cache
         /\ promises' = r.s.promises
         /\ calls' = Append(calls, r.c)
    /\ UNCHANGED <<ret, lazy, ioSupported, gets, slVars, plVars>>

\* getImage(url) when its own promise settles right in the call: never,
\* an await or an adopted promise takes a microtask at least
GetSettledAtOnce(s, u) == "resolved"

GetAtCall(s, u) == "pending"

\* a call of getImage(url): preloadImage(url) when the cache has no entry;
\* its promise follows the one in the cache
GetImageCall(u) ==
    /\ Len(gets) < MaxGets
    /\ isCached(u) \/ Room(1)
    /\ LET s == IF ~isCached(u) THEN preloadImage(ILState, u)
                ELSE [ILState EXCEPT !.ret = cache[u]]
           st == s.promises[s.ret].st
       IN /\ cache' = s.cache
          /\ promises' = s.promises
          /\ gets' = Append(gets, [url |-> u, p |-> s.ret, fresh |-> ~isCached(u),
                                   st |-> IF Settled(st) THEN st
                                          ELSE GetAtCall(s, u)])
    /\ UNCHANGED <<ret, lazy, ioSupported, calls, slVars, plVars>>

\* lazyObserver.unobserve(img) after loadLazyImage(img)
UnobserveSkipped(l) == l

Unobserve(l) == [l EXCEPT !.observed = FALSE]

\* the IntersectionObserver callback for an intersecting, observed image:
\* loadLazyImage(img), then unobserve(img)
LazyIntersect(i) ==
    /\ lazy[i].observed
    /\ lazy[i].runs < MaxRuns
    /\ IF lazy[i].dataSrc = NoUrl
       THEN /\ lazy' = [lazy EXCEPT ![i] = Unobserve([@ EXCEPT !.runs = @ + 1])]
            /\ UNCHANGED <<cache, promises>>
       ELSE /\ isCached(lazy[i].dataSrc) \/ Room(1)
            /\ LET s == preloadImage(ILState, lazy[i].dataSrc)
                   st == s.promises[s.ret].st
                   l == [lazy[i] EXCEPT !.runs = @ + 1, !.awaiting = s.ret]
               IN /\ cache' = s.cache
                  /\ promises' = s.promises
                  /\ lazy' = [lazy EXCEPT ![i] =
                                Unobserve(IF Settled(st) THEN LazyResumed(l, st) ELSE l)]
    /\ UNCHANGED <<ret, calls, gets, ioSupported, slVars, plVars>>

\* a node that is an img[data-src] is added to the document: the
\* MutationObserver callback hands it to this.lazyObserver, if there is one
InjectLazy(i, u) ==
    /\ ~lazy[i].inDom
    /\ lazy' = [lazy EXCEPT ![i] = [@ EXCEPT !.inDom = TRUE, !.dataSrc = u,
                                               !.observed = ioSupported]]
    /\ UNCHANGED <<cache, promises, ret, calls, gets, ioSupported, slVars, plVars>>

RECURSIVE PrefetchAll(_, _)
\* the mouseenter listener of setupHoverPrefetch: preload what is not cached
PrefetchAll(s, urls) ==
    IF urls = <<>> THEN s
    ELSE PrefetchAll(IF s.cache[Head(urls)] = 0 THEN preloadImage(s, Head(urls)) ELSE s,
                     Tail(urls))

Uncached(urls) == {urls[k] : k \in DOMAIN urls} \cap {u \in URLS : cache[u] = 0}

HoverPrefetch(urls) ==
    /\ Room(Cardinality(Uncached(urls)))
    /\ LET s == PrefetchAll(ILState, urls) IN
         /\ cache' = s.cache
         /\ promises' = s.promises
    /\ UNCHANGED <<ret, calls, gets, lazy, ioSupported, slVars, plVars>>

----------------------------------------------------------------------------
(* ContentLoader: the preview box *)

\* isImageReady(url): imageLoader.isCached(url), or the fallback set
isImageReady(u) ==
    IF imageLoaderPresent THEN isCached(u) ELSE u \in preloadedImages

\* the preview image element and its indicators, as updatePreviewImage and
\* updateIndicators see and change them
PreviewState == [bg |-> bg, transitioning |-> transitioning, imgLoaded |-> imgLoaded,
                 dots |-> dots, fades |-> fades]

\* updateIndicatorActive(): the dot at currentImageIndex is the active one
updateIndicatorActive(ds, idx) == [k \in DOMAIN ds |-> (k - 1 = idx)]

\* updateIndicators(): rebuild the dots, none for a single image
updateIndicators(imgs, idx) ==
    IF Len(imgs) <= 1 THEN <<>> ELSE [k \in 1..Len(imgs) |-> (k - 1 = idx)]

\* the branch condition of updatePreviewImage
ShowInstantlyNever(instant, url) == instant

ShowInstantly(instant, url) == instant \/ isImageReady(url)

\* this.currentImages[this.currentImageIndex] past the end of the array
Undefined == "undefined"

\* updatePreviewImage(instant) on preview state st
updatePreviewImage(instant, imgs, idx, st) ==
    IF Len(imgs) = 0 THEN st
    ELSE LET imageUrl == IF idx + 1 \in DOMAIN imgs THEN imgs[idx + 1] ELSE Undefined IN
         IF ShowInstantly(instant, imageUrl)
         THEN [st EXCEPT !.bg = imageUrl, !.transitioning = FALSE, !.imgLoaded = TRUE,
                         !.dots = updateIndicatorActive(st.dots, idx)]
         ELSE [st EXCEPT !.transitioning = TRUE,
                         !.fades = [@ EXCEPT ![imageUrl] = @ + 1]]

SetPreview(st) ==
    /\ bg' = st.bg
    /\ transitioning' = st.transitioning
    /\ imgLoaded' = st.imgLoaded
    /\ dots' = st.dots
    /\ fades' = st.fades

\* stopSlideshow(): clear the interval this.slideshowInterval refers to
TimersKept == timers

TimersAfterStop == IF slideshowInterval THEN timers - 1 ELSE timers

\* showPreviewBox / startSlideshow: a slideshow for more than one image
StartsSlideshowAlways(images) == TRUE

StartsSlideshow(images) == Len(images) > 1

\* showPreviewBox: this.currentImageIndex = 0
IndexKept(idx) == idx

IndexAtShow(idx) == 0

\* showPreviewBox(images): what it does to the preview box
showPreviewBox(images) ==
    /\ IF ~supportsHover
       THEN UNCHANGED <<currentImages, currentImageIndex, slideshowInterval, timers,
                        isPreviewVisible, bg, transitioning, imgLoaded, dots, fades,
                        ticks>>
       ELSE /\ currentImages' = images
            /\ currentImageIndex' = IndexAtShow(currentImageIndex)
            /\ LET idx == IndexAtShow(currentImageIndex)
                   st == updatePreviewImage(TRUE, images, idx, PreviewState)
               IN SetPreview([st EXCEPT !.dots = updateIndicators(images, idx)])
            /\ isPreviewVisible' = TRUE
            /\ IF StartsSlideshow(images)
               THEN /\ slideshowInterval' = TRUE
                    /\ timers' = TimersAfterStop + 1
               ELSE /\ slideshowInterval' = FALSE
                    /\ timers' = TimersAfterStop
            /\ ticks' = 0
    /\ UNCHANGED <<imageLoaderPresent, supportsHover>>

\* a call of showPreviewBox(images)
ShowPreviewBox(images) ==
    /\ showPreviewBox(images)
    /\ UNCHANGED <<ilVars, plVars, preloadedImages>>

\* hidePreviewBox(): what it does to the preview box
hidePreviewBox ==
    /\ isPreviewVisible' = FALSE
    /\ slideshowInterval' = FALSE
    /\ timers' = TimersAfterStop
    /\ UNCHANGED <<currentImages, currentImageIndex, bg, transitioning,
                   imgLoaded, dots, fades, imageLoaderPresent, supportsHover, ticks>>

\* a call of hidePreviewBox()
HidePreviewBox ==
    /\ hidePreviewBox
    /\ UNCHANGED <<ilVars, plVars, preloadedImages>>

\* the preview box is left alone
PreviewUntouched ==
    UNCHANGED <<currentImages, currentImageIndex, slideshowInterval, timers,
                isPreviewVisible, bg, transitioning, imgLoaded, dots, fades,
                imageLoaderPresent, supportsHover, ticks>>

\* the index the slideshow timer callback moves to
NextIndexStuck(idx, n) == IF idx + 1 < n THEN idx + 1 ELSE idx

NextIndex(idx, n) == (idx + 1) % n

TotalFades == fades["a.jpg"] + fades["b.jpg"] + fades["c.jpg"]

\* one firing of the setInterval callback of startSlideshow()
Tick ==
    /\ timers > 0
    /\ ticks < MaxTicks
    /\ LET idx == NextIndex(currentImageIndex, Len(currentImages))
           st == updatePreviewImage(FALSE, currentImages, idx, PreviewState)
       IN /\ st.fades # fades => TotalFades < MaxFades
          /\ currentImageIndex' = idx
          /\ SetPreview(st)
    /\ ticks' = ticks + 1
    /\ UNCHANGED <<ilVars, plVars, currentImages, slideshowInterval, timers, isPreviewVisible,
                   preloadedImages, imageLoaderPresent, supportsHover>>

\* img.onload of a fade-path load of u (updatePreviewImage, not instant)
FadeOnload(u) ==
    /\ fades[u] > 0
    /\ bg' = u
    /\ transitioning' = FALSE
    /\ imgLoaded' = TRUE
    /\ dots' = updateIndicatorActive(dots, currentImageIndex)
    /\ preloadedImages' = preloadedImages \cup {u}
    /\ fades' = [fades EXCEPT ![u] = @ - 1]
    /\ UNCHANGED <<ilVars, plVars, currentImages, currentImageIndex, slideshowInterval, timers,
                   isPreviewVisible, imageLoaderPresent, supportsHover, ticks>>

\* a fade-path load of u fails: the Image has no onerror handler
FadeError(u) ==
    /\ fades[u] > 0
    /\ fades' = [fades EXCEPT ![u] = @ - 1]
    /\ UNCHANGED <<ilVars, plVars, currentImages, currentImageIndex, slideshowInterval, timers,
                   isPreviewVisible, bg, transitioning, imgLoaded, dots, preloadedImages,
                   imageLoaderPresent, supportsHover, ticks>>

----------------------------------------------------------------------------
(* Strings: sequences of one-character strings *)

Digits == <<"0", "1", "2", "3", "4", "5", "6", "7", "8", "9">>
IsDigit(c) == \E d \in 1..10 : Digits[d] = c
DigitVal(c) == (CHOOSE d \in 1..10 : Digits[d] = c) - 1

\* String.prototype.toLowerCase, on the characters used here
LowerChar(c) == CASE c = "A" -> "a" [] c = "B" -> "b" [] c = "W" -> "w" [] OTHER -> c
toLowerCase(str) == [k \in DOMAIN str |-> LowerChar(str[k])]

RECURSIVE trimStart(_)
trimStart(str) == IF str # <<>> /\ Head(str) = " " THEN trimStart(Tail(str)) ELSE str
RECURSIVE trimEnd(_)
trimEnd(str) ==
    IF str # <<>> /\ str[Len(str)] = " " THEN trimEnd(SubSeq(str, 1, Len(str) - 1)) ELSE str
\* String.prototype.trim
trim(str) == trimEnd(trimStart(str))

\* String.prototype.includes
includes(str, q) ==
    \E k \in 0..(Len(str) - Len(q)) : SubSeq(str, k + 1, k + Len(q)) = q

RECURSIVE LeadingDigits(_)
LeadingDigits(str) ==
    IF str # <<>> /\ IsDigit(Head(str)) THEN <<Head(str)>> \o LeadingDigits(Tail(str))
    ELSE <<>>
RECURSIVE DigitsValue(_)
DigitsValue(ds) ==
    IF ds = <<>> THEN 0 ELSE 10 * DigitsValue(SubSeq(ds, 1, Len(ds) - 1)) + DigitVal(ds[Len(ds)])
\* parseInt(str) || 0: the leading decimal digits after white space, 0 if none
parseIntOr0(str) == DigitsValue(LeadingDigits(trimStart(str)))

RECURSIVE toString(_)
\* Number.prototype.toString of a natural number
toString(n) == IF n < 10 THEN <<Digits[n + 1]>> ELSE toString(n \div 10) \o <<Digits[(n % 10) + 1]>>

\* collation order of the characters used here
Alphabet == <<" ", "0", "1", "2", "3", "4", "5", "6", "7", "8", "9", "a", "b", "w", "x">>
CharRank(c) == CHOOSE r \in 1..Len(Alphabet) : Alphabet[r] = c
RECURSIVE localeCompare(_, _)
\* String.prototype.localeCompare: negative, zero or positive
localeCompare(x, y) ==
    IF x = <<>> THEN (IF y = <<>> THEN 0 ELSE -1)
    ELSE IF y = <<>> THEN 1
    ELSE IF Head(x) = Head(y) THEN localeCompare(Tail(x), Tail(y))
    ELSE IF CharRank(Head(x)) < CharRank(Head(y)) THEN -1 ELSE 1

----------------------------------------------------------------------------
(* Project data and the project items *)

\* at most this many .project-item elements in #projectList
MaxItems == 3
\* element ids: the items in the list and the detached ones still referenced
ElIds == 1..(2 * MaxItems)

D1 == [year |-> <<"2", "1">>, title |-> <<"A", "b">>, category |-> <<"W">>,
       preview |-> <<"a.jpg", "b.jpg">>]
D2 == [year |-> <<"0", "7">>, title |-> <<"b">>, category |-> <<"w", "a">>,
       preview |-> <<"b.jpg", "c.jpg", "a.jpg">>]
D3 == [year |-> <<"x">>, title |-> <<"a", "7">>, category |-> <<>>,
       preview |-> <<>>]
ProjectData == {D1, D2, D3}
\* the item shown when there is nothing to list: no data-* attributes
Placeholder == [year |-> <<>>, title |-> <<>>, category |-> <<>>, preview |-> <<>>]
\* data.projects of data/projects.json
JsonLists == {<<>>, <<D1, D2>>, <<D3, D1>>}
\* values typed into the search box
Queries == {<<>>, <<" ">>, <<" ", "A">>, <<"7">>, <<"W", " ">>}
\* data-sort of the filter buttons
SortKeys == {"year", "title", "category"}

NoEl == [free |-> TRUE]
\* a new .project-item element
NewEl(d, wired) == [free |-> FALSE, data |-> d, display |-> "", active |-> TRUE,
                    preview |-> wired]

DomSet == {dom[k] : k \in DOMAIN dom}
\* the first n unused element ids
RECURSIVE FreshIds(_, _)
FreshIds(used, n) ==
    IF n = 0 THEN <<>>
    ELSE LET id == CHOOSE i \in ElIds \ used : \A j \in ElIds \ used : i <= j
         IN <<id>> \o FreshIds(used \cup {id}, n - 1)

----------------------------------------------------------------------------
(* ProjectList *)

\* cacheProjects(): the record of one .project-item element
ProjectOf(id, e) ==
    [element |-> id,
     year |-> parseIntOr0(e[id].data.year),
     title |-> toLowerCase(e[id].data.title),
     category |-> toLowerCase(e[id].data.category)]

\* setupProjectClicks(): each cached element is replaced by its cloneNode(true);
\* the clone has the attributes and style, none of the listeners
Cloned(e, d) ==
    [i \in ElIds |-> IF i \in SeqSet(d) THEN [e[i] EXCEPT !.preview = FALSE] ELSE e[i]]

\* elements neither in the list nor referenced by ProjectList are garbage
Collect(e, d, ps) ==
    [i \in ElIds |->
        IF i \in SeqSet(d) \/ (\E k \in DOMAIN ps : ps[k].element = i) THEN e[i] ELSE NoEl]

\* cacheProjects() on list d with elements e: [projects, el]
cacheProjects(e, d) ==
    LET ps == [k \in DOMAIN d |-> ProjectOf(d[k], e)]
    IN [projects |-> ps, el |-> Collect(Cloned(e, d), d, ps)]

\* the field a sort key reads
KeyOf(p, key) == CASE key = "year" -> p.year [] key = "title" -> p.title
                   [] OTHER -> p.category

\* the comparator of sortProjects()
Compare(a, b, key, dir) ==
    IF key = "year" THEN (a.year - b.year) * dir
    ELSE localeCompare(KeyOf(a, key), KeyOf(b, key)) * dir

RECURSIVE InsertSorted(_, _, _, _)
InsertSorted(p, sorted, key, dir) ==
    IF sorted = <<>> THEN <<p>>
    ELSE IF Compare(sorted[Len(sorted)], p, key, dir) <= 0 THEN Append(sorted, p)
    ELSE Append(InsertSorted(p, SubSeq(sorted, 1, Len(sorted) - 1), key, dir),
                sorted[Len(sorted)])
RECURSIVE SortBy(_, _, _)
\* Array.prototype.sort (stable) with that comparator
SortBy(ps, key, dir) ==
    IF ps = <<>> THEN <<>>
    ELSE InsertSorted(ps[Len(ps)], SortBy(SubSeq(ps, 1, Len(ps) - 1), key, dir), key, dir)

\* sortProjects()
sortProjects(ps, key, direction) == SortBy(ps, key, IF direction = "desc" THEN -1 ELSE 1)

\* the test of filterProjects()
MatchesTitleOnly(p, q) == q = <<>> \/ includes(p.title, q)

Matches(p, q) ==
    \/ q = <<>>
    \/ includes(p.title, q)
    \/ includes(p.category, q)
    \/ includes(toString(p.year), q)

\* filterProjects(): show or hide the element of every cached project
filterProjects(e, ps, q) ==
    [i \in ElIds |->
        IF \E k \in DOMAIN ps : ps[k].element = i
        THEN LET p == ps[CHOOSE k \in DOMAIN ps : ps[k].element = i] IN
             IF Matches(p, q) THEN [e[i] EXCEPT !.display = "", !.active = TRUE]
             ELSE [e[i] EXCEPT !.display = "none", !.active = FALSE]
        ELSE e[i]]

RemoveFrom(d, ids) == SelectSeq(d, LAMBDA i : i \notin ids)

\* renderProjects(): [dom, el]. removeChild throws at the first cached
\* element that is not in the list, which ends the handler there
renderProjects(e, d, ps, q) ==
    LET stale == {k \in DOMAIN ps : ps[k].element \notin SeqSet(d)}
        upTo == IF stale = {} THEN Len(ps)
                ELSE (CHOOSE k \in stale : \A j \in stale : k <= j) - 1
        removed == {ps[k].element : k \in 1..upTo}
    IN IF stale # {}
       THEN [dom |-> RemoveFrom(d, removed), el |-> e]
       ELSE [dom |-> RemoveFrom(d, removed) \o [k \in DOMAIN ps |-> ps[k].element],
             el |-> filterProjects(e, ps, q)]

\* the direction after a click on the button of the current sort key
ToggledStuck(direction) == "desc"

Toggled(direction) == IF direction = "desc" THEN "asc" ELSE "desc"

\* onFilterClick(e), e.currentTarget.dataset.sort = sortKey
OnFilterClick(sortKey) ==
    LET same == currentSort = sortKey
        direction == IF same THEN Toggled(sortDirection) ELSE "desc"
        sorted == sortProjects(projects, sortKey, direction)
        r == renderProjects(el, dom, sorted, searchQuery)
    IN /\ currentSort' = sortKey
       /\ sortDirection' = direction
       /\ dirBefore' = IF same THEN sortDirection ELSE "none"
       /\ projects' = sorted
       /\ dom' = r.dom
       /\ el' = Collect(r.el, r.dom, sorted)
       /\ hovered' = IF hovered \in SeqSet(r.dom) THEN hovered ELSE 0
       /\ UNCHANGED <<ilVars, slVars, searchQuery, projDone, updDone, updates, currentPage>>

\* onSearch(e), e.target.value = value
OnSearch(value) ==
    LET q == trim(toLowerCase(value)) IN
    /\ searchQuery' = q
    /\ el' = filterProjects(el, projects, q)
    /\ hovered' = IF hovered # 0 /\ el'[hovered].display = "none" THEN 0 ELSE hovered
    /\ UNCHANGED <<ilVars, slVars, dom, projects, currentSort, sortDirection,
                   projDone, updDone, updates, currentPage, dirBefore>>

\* a call of cacheProjects()
CacheProjects ==
    LET c == cacheProjects(el, dom) IN
    /\ projects' = c.projects
    /\ el' = c.el
    /\ hovered' = IF hovered \in DomSet THEN 0 ELSE hovered
    /\ UNCHANGED <<ilVars, slVars, dom, currentSort, sortDirection, searchQuery,
                   projDone, updDone, updates, currentPage, dirBefore>>

\* ProjectList.addProject(projectData): createProjectElement sets no
\* data-preview; then cacheProjects, sortProjects, renderProjects
PLAddProject(d) ==
    /\ Len(dom) < MaxItems
    /\ LET id == FreshIds({i \in ElIds : ~el[i].free}, 1)[1]
           e1 == [el EXCEPT ![id] = NewEl([d EXCEPT !.preview = <<>>], FALSE)]
           c == cacheProjects(e1, Append(dom, id))
           sorted == sortProjects(c.projects, currentSort, sortDirection)
           r == renderProjects(c.el, Append(dom, id), sorted, searchQuery)
       IN /\ projects' = sorted
          /\ dom' = r.dom
          /\ el' = r.el
    /\ hovered' = 0
    /\ UNCHANGED <<ilVars, slVars, currentSort, sortDirection, searchQuery,
                   projDone, updDone, updates, currentPage, dirBefore>>

----------------------------------------------------------------------------
(* ContentLoader: loading and wiring the project items; Navigation *)

RECURSIVE PreloadEach(_, _)
PreloadEach(s, urls) ==
    IF urls = <<>> THEN s ELSE PreloadEach(preloadImage(s, Head(urls)), Tail(urls))

\* ImageLoader.preloadImages(urls) as addToCache() and refresh() call it,
\* dropping its promise: with no more than concurrentPreloads distinct URLs
\* (the pages here have three) the call is its first batch
preloadImages(s, urls) == NewCall(s, urls).s

RECURSIVE Flatten(_)
Flatten(lists) == IF lists = <<>> THEN <<>> ELSE Head(lists) \o Flatten(Tail(lists))

\* collectPreviewUrls(): the data-preview URLs of the items of list d
collectPreviewUrls(e, d) == Flatten([k \in DOMAIN d |-> e[d[k]].data.preview])

\* ContentLoader.preloadImages(urls): [il, preloaded]
CLPreloadImages(s, pre, urls) ==
    IF imageLoaderPresent THEN [il |-> preloadImages(s, urls), preloaded |-> pre]
    ELSE [il |-> s, preloaded |-> pre \cup SeqSet(urls)]

\* ContentLoader.renderProjects(projects): the new content of #projectList;
\* setupHoverListeners wires the items that carry data-preview
RenderedItems(list) ==
    IF list = <<>> THEN <<NewEl(Placeholder, FALSE)>>
    ELSE [k \in DOMAIN list |-> NewEl(list[k], list[k].preview # <<>>)]

\* #projectList.innerHTML = ...: [dom, el]
SetItems(e, ps, items) ==
    LET kept == [i \in ElIds |->
                    IF \E k \in DOMAIN ps : ps[k].element = i THEN e[i] ELSE NoEl]
        ids == FreshIds({i \in ElIds : ~kept[i].free}, Len(items))
    IN [dom |-> ids,
        el |-> [i \in ElIds |->
                  IF \E k \in DOMAIN ids : ids[k] = i
                  THEN items[CHOOSE k \in DOMAIN ids : ids[k] = i] ELSE kept[i]]]

\* the rest of ContentLoader.init() after loadUpdates and loadProjects, run on
\* [dom, el, projects, il, preloaded]: cacheProjects, imageLoader.refresh,
\* and preloadAllPreviewImages when the page is #projects
InitTail(t) ==
    LET c == cacheProjects(t.el, t.dom)
        urls == collectPreviewUrls(c.el, t.dom)
    IN [t EXCEPT !.el = c.el, !.projects = c.projects,
                 !.il = IF imageLoaderPresent THEN preloadImages(t.il, urls) ELSE t.il,
                 !.preloaded = IF currentPage = "projects"
                               THEN t.preloaded \cup SeqSet(urls) ELSE t.preloaded,
                 !.hovered = 0]

Commit(t) ==
    /\ dom' = t.dom
    /\ el' = t.el
    /\ projects' = t.projects
    /\ cache' = t.il.cache
    /\ promises' = t.il.promises
    /\ preloadedImages' = t.preloaded
    /\ hovered' = t.hovered

Now == [dom |-> dom, el |-> el, projects |-> projects, il |-> ILState,
        preloaded |-> preloadedImages, hovered |-> hovered]

\* what #updatesContainer shows after loadUpdates()
UpdatesLost(ok) == updates

UpdatesShown(ok) == IF ok THEN "rendered" ELSE "fallback"

\* what #projectList is set to by loadProjects()
ItemsLost(ok, list) == IF ok THEN RenderedItems(list) ELSE <<>>

ItemsShown(ok, list) == IF ok THEN RenderedItems(list) ELSE <<NewEl(Placeholder, FALSE)>>

\* loadProjects() completes: the fetched list is rendered, or the fallback
\* item when fetching or parsing failed; init() continues when both are done
LoadProjects(ok, list) ==
    /\ ~projDone
    /\ projDone' = TRUE
    /\ LET pre == IF ok THEN CLPreloadImages(ILState, preloadedImages,
                                            Flatten([k \in DOMAIN list |-> list[k].preview]))
                  ELSE [il |-> ILState, preloaded |-> preloadedImages]
           r == SetItems(el, projects, ItemsShown(ok, list))
           t == [dom |-> r.dom, el |-> r.el, projects |-> projects, il |-> pre.il,
                 preloaded |-> pre.preloaded, hovered |-> 0]
       IN Commit(IF updDone THEN InitTail(t) ELSE t)
    /\ PreviewUntouched
    /\ UNCHANGED <<ret, calls, gets, lazy, ioSupported, currentSort, sortDirection, searchQuery,
                   updDone, updates, currentPage, dirBefore>>

\* loadUpdates() completes, with the updates rendered or, when fetching or
\* parsing failed, the fallback item; init() continues when both are done
LoadUpdates(ok) ==
    /\ ~updDone
    /\ updDone' = TRUE
    /\ updates' = UpdatesShown(ok)
    /\ Commit(IF projDone THEN InitTail(Now) ELSE Now)
    /\ PreviewUntouched
    /\ UNCHANGED <<ret, calls, gets, lazy, ioSupported, currentSort, sortDirection, searchQuery,
                   projDone, currentPage, dirBefore>>

\* ContentLoader.addProject(project): element with data-preview and hover
\* listeners, appended; then projectList.cacheProjects()
CLAddProject(d) ==
    /\ Len(dom) < MaxItems
    /\ Room(Cardinality(Uncached(d.preview)))
    /\ LET pre == CLPreloadImages(ILState, preloadedImages, d.preview)
           id == FreshIds({i \in ElIds : ~el[i].free}, 1)[1]
           e1 == [el EXCEPT ![id] = NewEl(d, d.preview # <<>>)]
           c == cacheProjects(e1, Append(dom, id))
       IN Commit([dom |-> Append(dom, id), el |-> c.el, projects |-> c.projects,
                  il |-> pre.il, preloaded |-> pre.preloaded, hovered |-> 0])
    /\ PreviewUntouched
    /\ UNCHANGED <<ret, calls, gets, lazy, ioSupported, currentSort, sortDirection, searchQuery,
                   projDone, updDone, updates, currentPage, dirBefore>>

Pages == {"home", "projects"}

\* Navigation.navigateTo(page): cacheProjects() on entering the projects page,
\* then the pageChange event (ContentLoader listens once init() is through)
NavigateTo(page) ==
    /\ page # currentPage
    /\ currentPage' = page
    /\ IF page = "projects"
       THEN LET c == cacheProjects(el, dom) IN
            /\ projects' = c.projects
            /\ el' = c.el
            /\ hovered' = IF hovered \in DomSet THEN 0 ELSE hovered
            /\ preloadedImages' =
                  IF projDone /\ updDone
                  THEN preloadedImages \cup SeqSet(collectPreviewUrls(el, dom))
                  ELSE preloadedImages
       ELSE UNCHANGED <<projects, el, hovered, preloadedImages>>
    /\ PreviewUntouched
    /\ UNCHANGED <<ilVars, dom, currentSort, sortDirection, searchQuery,
                   projDone, updDone, updates, dirBefore>>

\* mouseenter on the visible project item id: the ImageLoader listener of
\* setupElementHoverPrefetch preloads its data-preview URLs, the ContentLoader
\* listener, where the element has it, shows the preview box
MouseEnter(id) ==
    /\ id \in DomSet
    /\ hovered = 0
    /\ el[id].display # "none"
    /\ hovered' = id
    /\ Room(Cardinality(Uncached(el[id].data.preview)))
    /\ LET s == PreloadEach(ILState, el[id].data.preview) IN
         /\ cache' = s.cache
         /\ promises' = s.promises
    /\ IF el[id].preview THEN showPreviewBox(el[id].data.preview) ELSE PreviewUntouched
    /\ UNCHANGED <<ret, calls, gets, lazy, ioSupported, preloadedImages, dom, el, projects,
                   currentSort, sortDirection, searchQuery, projDone, updDone, updates,
                   currentPage, dirBefore>>

\* mouseleave on the hovered item
MouseLeave ==
    /\ hovered # 0
    /\ hovered' = 0
    /\ IF el[hovered].preview THEN hidePreviewBox ELSE PreviewUntouched
    /\ UNCHANGED <<ilVars, preloadedImages, dom, el, projects, currentSort,
                   sortDirection, searchQuery, projDone, updDone, updates, currentPage, dirBefore>>

----------------------------------------------------------------------------
(* Initial states *)

NoLazy == [inDom |-> FALSE, dataSrc |-> NoUrl, src |-> NoUrl, observed |-> FALSE,
           awaiting |-> 0, cls |-> "", runs |-> 0]

\* setupLazyLoading at init: observe the img[data-src] of the page, or,
\* without IntersectionObserver, set their src at once
LazyAtInit(u, io) ==
    [inDom |-> TRUE, dataSrc |-> u, src |-> IF io THEN NoUrl ELSE u,
     observed |-> io, awaiting |-> 0, cls |-> "", runs |-> 0]

InitIL ==
    /\ cache = [u \in URLS |-> 0]
    /\ promises = <<>>
    /\ ret = NoRet
    /\ calls = <<>>
    /\ gets = <<>>
    /\ ioSupported = TRUE
    /\ lazy = [i \in LazyImgs |-> NoLazy]

\* the page holds one img[data-src] when ImageLoader is constructed
InitLazyIL ==
    /\ cache = [u \in URLS |-> 0]
    /\ promises = <<>>
    /\ ret = NoRet
    /\ calls = <<>>
    /\ gets = <<>>
    /\ ioSupported \in BOOLEAN
    /\ \E u \in LazySrcs :
         lazy = [i \in LazyImgs |-> IF i = 1 THEN LazyAtInit(u, ioSupported) ELSE NoLazy]

InitSL ==
    /\ currentImages = <<>>
    /\ currentImageIndex = 0
    /\ slideshowInterval = FALSE
    /\ timers = 0
    /\ isPreviewVisible = FALSE
    /\ bg = NoUrl
    /\ transitioning = FALSE
    /\ imgLoaded = FALSE
    /\ dots = <<>>
    /\ fades = [u \in URLS |-> 0]
    /\ preloadedImages = {}
    /\ imageLoaderPresent = TRUE
    /\ supportsHover = TRUE
    /\ ticks = 0

\* ProjectList constructed on an empty #projectList; ContentLoader has
\* started loadUpdates() and loadProjects()
InitPL ==
    /\ dom = <<>>
    /\ el = [i \in ElIds |-> NoEl]
    /\ projects = <<>>
    /\ currentSort = "year"
    /\ sortDirection = "desc"
    /\ searchQuery = <<>>
    /\ projDone = FALSE
    /\ updDone = FALSE
    /\ updates = "empty"
    /\ currentPage = "home"
    /\ hovered = 0
    /\ dirBefore = "none"

Init == InitIL /\ InitSL /\ InitPL

NextCache ==
    \/ \E u \in URLS : PreloadImageCall(u)
    \/ \E p \in 1..MaxLoads : ImgOnload(p)
    \/ \E p \in 1..MaxLoads : DecodeSettled(p)
    \/ \E p \in 1..MaxLoads : ImgOnerror(p)
    \/ \E urls \in PreviewLists : HoverPrefetch(urls)

SpecCache == Init /\ [][NextCache]_vars

NextLazy ==
    \/ \E u \in LazySrcs : PreloadImageCall(u)
    \/ \E p \in 1..MaxLoads : ImgOnload(p)
    \/ \E p \in 1..MaxLoads : DecodeSettled(p)
    \/ \E p \in 1..MaxLoads : ImgOnerror(p)
    \/ \E i \in LazyImgs : LazyIntersect(i)
    \/ \E i \in LazyImgs \ {1}, u \in LazySrcs : InjectLazy(i, u)

InitLazy == InitLazyIL /\ InitSL /\ InitPL

SpecLazy == InitLazy /\ [][NextLazy]_vars

\* preloadImages() called with lists of more than one batch
InitBatch ==
    /\ cache = [u \in BatchUrls |-> 0]
    /\ promises = <<>>
    /\ ret = NoRet
    /\ calls = <<>>
    /\ gets = <<>>
    /\ ioSupported = TRUE
    /\ lazy = [i \in LazyImgs |-> NoLazy]
    /\ InitSL
    /\ InitPL

NextBatch ==
    \/ \E urls \in BatchLists : PreloadImagesCall(urls)
    \/ \E p \in 1..MaxBatchLoads : ImgOnload(p)
    \/ \E p \in 1..MaxBatchLoads : DecodeSettled(p)
    \/ \E p \in 1..MaxBatchLoads : ImgOnerror(p)

SpecBatch == InitBatch /\ [][NextBatch]_vars

\* getImage() next to preloadImage() and the load events
NextGet ==
    \/ \E u \in GetUrls : GetImageCall(u)
    \/ PreloadImageCall("a.jpg")
    \/ \E p \in 1..MaxLoads : ImgOnload(p)
    \/ \E p \in 1..MaxLoads : DecodeSettled(p)
    \/ \E p \in 1..MaxLoads : ImgOnerror(p)

SpecGet == Init /\ [][NextGet]_vars

\* the preview box, with window.imageLoader set or not
InitSlide ==
    /\ InitIL
    /\ currentImages = <<>>
    /\ currentImageIndex = 0
    /\ slideshowInterval = FALSE
    /\ timers = 0
    /\ isPreviewVisible = FALSE
    /\ bg = NoUrl
    /\ transitioning = FALSE
    /\ imgLoaded = FALSE
    /\ dots = <<>>
    /\ fades = [u \in URLS |-> 0]
    /\ preloadedImages = {}
    /\ imageLoaderPresent \in BOOLEAN
    /\ supportsHover \in BOOLEAN
    /\ ticks = 0
    /\ InitPL

\* the preview box sees the cache through isCached only: here every URL is
\* requested from ImageLoader at most once
NeverLoaded(us) == \A u \in us : Started(u) = 0

NextSlide ==
    \/ \E images \in PreviewLists : ShowPreviewBox(images)
    \/ HidePreviewBox
    \/ Tick
    \/ \E u \in URLS : FadeOnload(u)
    \/ \E u \in URLS : FadeError(u)
    \/ \E urls \in PreviewLists :
          imageLoaderPresent /\ NeverLoaded(Uncached(urls)) /\ HoverPrefetch(urls)
    \/ \E p \in 1..MaxLoads : ImgOnerror(p)

SpecSlide == InitSlide /\ [][NextSlide]_vars

\* the same, with the scheduling the browser gives: an active interval keeps
\* firing, and a started image load ends with a load or an error event
SpecSlideFair ==
    /\ InitSlide
    /\ [][NextSlide]_vars
    /\ WF_vars(Tick)
    /\ \A u \in URLS : WF_vars(FadeOnload(u) \/ FadeError(u))

\* the project list, from page load on
InitList ==
    /\ InitIL
    /\ InitSL
    /\ dom = <<>>
    /\ el = [i \in ElIds |-> NoEl]
    /\ projects = <<>>
    /\ currentSort = "year"
    /\ sortDirection = "desc"
    /\ searchQuery = <<>>
    /\ projDone = FALSE
    /\ updDone = FALSE
    /\ updates = "empty"
    /\ currentPage \in Pages
    /\ hovered = 0
    /\ dirBefore = "none"

\* projects added through the two addProject methods
AddedByList == {D3}
AddedByLoader == {D1}

\* sorting and searching, while the content loads and projects are added
NextList ==
    \/ \E k \in SortKeys : OnFilterClick(k)
    \/ \E v \in Queries : OnSearch(v)
    \/ CacheProjects
    \/ \E d \in AddedByList : PLAddProject(d)
    \/ \E d \in AddedByLoader : CLAddProject(d)
    \/ \E list \in JsonLists : LoadProjects(TRUE, list)
    \/ LoadProjects(FALSE, <<>>)
    \/ LoadUpdates(TRUE)
    \/ \E page \in Pages : NavigateTo(page)

SpecList == InitList /\ [][NextList]_vars

\* ContentLoader.init(): the two loaders, each succeeding or failing, the
\* page the site is on, and the image loads init() starts
NextInit ==
    \/ \E list \in JsonLists : LoadProjects(TRUE, list)
    \/ LoadProjects(FALSE, <<>>)
    \/ \E ok \in BOOLEAN : LoadUpdates(ok)
    \/ \E page \in Pages : NavigateTo(page)
    \/ \E p \in 1..MaxLoads : ImgOnload(p)
    \/ \E p \in 1..MaxLoads : DecodeSettled(p)
    \/ \E p \in 1..MaxLoads : ImgOnerror(p)

SpecInit == InitList /\ [][NextInit]_vars

\* hovering the project items, with everything that rewires them
NextHover ==
    \/ \E k \in {"title"} : OnFilterClick(k)
    \/ \E v \in {<<>>, <<"7">>} : OnSearch(v)
    \/ CacheProjects
    \/ \E d \in AddedByList : PLAddProject(d)
    \/ \E d \in AddedByLoader : CLAddProject(d)
    \/ \E list \in JsonLists : LoadProjects(TRUE, list)
    \/ LoadProjects(FALSE, <<>>)
    \/ LoadUpdates(TRUE)
    \/ \E page \in Pages : NavigateTo(page)
    \/ \E id \in ElIds : MouseEnter(id)
    \/ MouseLeave

SpecHover == InitList /\ [][NextHover]_vars

----------------------------------------------------------------------------
(* ImageLoader: the cache (SpecCache) *)

\* the load of u has completed successfully
Loaded(u) == \E p \in DOMAIN promises :
                promises[p].url = u /\ promises[p].st = "resolved"
\* a load of u is in flight (loading or decoding)
InFlight(u) == \E p \in DOMAIN promises :
                promises[p].url = u /\ promises[p].st \in {"loading", "decoding"}

\* C1: while no load of u has failed, the preloadImage(u) calls start exactly
\* one load of u (in general: one load more than have failed, at most); every
\* call returns the promise the cache holds for u, which changes only when
\* its load fails; and a settled promise never changes its state again.
C1_PreloadOnce ==
    /\ [](\A u \in URLS : /\ Started(u) <= Failed(u) + 1
                          /\ (Failed(u) = 0 /\ isCached(u)) => Started(u) = 1)
    /\ [][\A u \in URLS :
            /\ PreloadImageCall(u) =>
                 /\ ret'.p = cache'[u]
                 /\ isCached(u) => (ret'.p = cache[u] /\ promises' = promises)
            /\ (isCached(u) /\ cache'[u] # cache[u]) =>
                 (cache'[u] = 0 /\ promises'[cache[u]].st = "rejected")]_vars
    /\ [][\A p \in DOMAIN promises :
            Settled(promises[p].st) => promises'[p] = promises[p]]_vars

\* C1 witness: a later call for an already loaded URL returned the one
\* promise of its only load
C1_Witness ==
    \E u \in URLS : /\ Started(u) = 1 /\ Failed(u) = 0
                    /\ ~ret.fresh /\ ret.p = cache[u]
                    /\ promises[ret.p].st = "resolved"

C8_NeverRetried ==
    \A u \in URLS : Failed(u) >= 1 => Started(u) = 1

\* the operations that ask ImageLoader for u
Requests(u) ==
    \/ PreloadImageCall(u)
    \/ \E urls \in PreviewLists : (\E k \in DOMAIN urls : urls[k] = u) /\ HoverPrefetch(urls)
    \/ \E i \in LazyImgs : lazy[i].dataSrc = u /\ LazyIntersect(i)

\* C8 amended: a failure starts no load by itself, it removes u from the
\* cache and leaves no load of u in flight; a load of u starts only in an
\* operation that asks for u while u is not cached, so a request after the
\* failure starts a fresh load.
C8_RetryOnDemandOnly ==
    /\ [][\A p \in DOMAIN promises :
            (promises[p].st # "rejected" /\ promises'[p].st = "rejected") =>
               /\ Len(promises') = Len(promises)
               /\ cache'[promises[p].url] = 0
               /\ ~InFlight(promises[p].url)']_vars
    /\ [][\A u \in URLS :
            /\ Started(u)' # Started(u) =>
                 (Requests(u) /\ ~isCached(u) /\ Started(u)' = Started(u) + 1)
            /\ (PreloadImageCall(u) /\ ~isCached(u)) => Started(u)' = Started(u) + 1]_vars

\* C8 witness: a URL whose load failed has been loaded again
C8_Witness ==
    \E u \in URLS : Failed(u) >= 1 /\ Started(u) = Failed(u) + 1 /\ Loaded(u)

\* C9 as stated: isCached(url) and isImageReady(url) are true only of an
\* image that has finished loading.
C9_CachedOnlyWhenLoaded ==
    \A u \in URLS : (isCached(u) \/ isImageReady(u)) => Loaded(u)

----------------------------------------------------------------------------
(* ImageLoader: lazy loading (SpecLazy) *)

\* C10: with IntersectionObserver, an intersection of an observed image runs
\* loadLazyImage and unobserves the image, so loadLazyImage runs at most once
\* per image; exactly when the awaited load succeeds the image gets src = the
\* former data-src, loses data-src and gets class 'loaded'; a swapped image
\* is one whose load has succeeded.
C10_LazyOnce ==
    /\ [](\A i \in LazyImgs :
            /\ lazy[i].runs <= 1
            /\ ioSupported =>
                 /\ (lazy[i].src # NoUrl \/ lazy[i].cls = "loaded"
                       \/ (lazy[i].inDom /\ lazy[i].dataSrc = NoUrl))
                      => (Loaded(lazy[i].src) /\ lazy[i].cls = "loaded"
                            /\ lazy[i].dataSrc = NoUrl /\ lazy[i].runs = 1)
                 /\ lazy[i].awaiting # 0 => ~Settled(promises[lazy[i].awaiting].st))
    /\ [][\A i \in LazyImgs :
            /\ LazyIntersect(i) =>
                 /\ ~lazy'[i].observed /\ lazy[i].runs = 0 /\ lazy'[i].runs = 1
                 /\ cache'[lazy[i].dataSrc] # 0
                 /\ \/ lazy'[i].awaiting = cache'[lazy[i].dataSrc]
                    \/ /\ promises'[cache'[lazy[i].dataSrc]].st = "resolved"
                       /\ lazy'[i].src = lazy[i].dataSrc
            /\ (lazy[i].awaiting # 0 /\ promises'[lazy[i].awaiting].st = "resolved") =>
                 /\ lazy'[i].src = lazy[i].dataSrc
                 /\ lazy'[i].dataSrc = NoUrl
                 /\ lazy'[i].cls = "loaded"]_vars

\* C10 witness: both images were observed and intersected once; one has
\* been swapped after its load, the other's load failed and it is unchanged
C10_Witness ==
    \E i, j \in LazyImgs :
        /\ lazy[i].runs = 1 /\ lazy[i].cls = "loaded" /\ lazy[i].src \in LazySrcs
        /\ lazy[i].dataSrc = NoUrl /\ ~lazy[i].observed
        /\ lazy[j].runs = 1 /\ lazy[j].cls = "load-error" /\ lazy[j].src = NoUrl
        /\ lazy[j].dataSrc \in LazySrcs

----------------------------------------------------------------------------
(* ContentLoader: the preview slideshow (SpecSlide) *)

\* C2: after showPreviewBox(images) with n > 1 images and until the next show
\* or hide, the k-th timer tick sets currentImageIndex to k mod n: the images
\* are visited in list order and the index wraps from the last to the first.
C2_SlideshowCycles ==
    /\ [](timers > 0 =>
            /\ Len(currentImages) > 1
            /\ currentImageIndex = ticks % Len(currentImages))
    /\ [][Tick =>
            /\ ticks' = ticks + 1
            /\ currentImages' = currentImages
            /\ currentImageIndex' = ticks' % Len(currentImages)]_vars
    /\ [][\A images \in PreviewLists :
            (supportsHover /\ ShowPreviewBox(images)) =>
               /\ ticks' = 0 /\ currentImageIndex' = 0 /\ currentImages' = images
               /\ (timers' > 0) = (Len(images) > 1)]_vars

\* C2 witness: a slideshow over three images has wrapped and is at the
\* second image on its fourth tick
C2_Witness ==
    /\ timers > 0 /\ isPreviewVisible
    /\ Len(currentImages) = 3
    /\ ticks = 4 /\ currentImageIndex = 1

\* C3: on a slideshow tick, a target URL that isImageReady reports cached is
\* set as the background in that step, with 'transitioning' off and no image
\* load started; otherwise, and only then, 'transitioning' is added, a
\* separate load of the target starts and the background stays as it is
\* until a fade-path load completes.
C3_CachedBypassesFade ==
    /\ [][Tick =>
            LET target == currentImages[currentImageIndex' + 1] IN
              IF isImageReady(target)
              THEN bg' = target /\ ~transitioning' /\ fades' = fades
              ELSE /\ transitioning' /\ bg' = bg
                   /\ fades' = [fades EXCEPT ![target] = @ + 1]]_vars
    /\ [][\A u \in URLS : FadeOnload(u) => (bg' = u /\ ~transitioning')]_vars

\* C3 witness: a tick has switched the background to a cached image at once
\* (no fade-path load has ever completed or is in flight)
C3_Witness ==
    /\ imageLoaderPresent /\ timers > 0 /\ ticks >= 1 /\ currentImageIndex >= 1
    /\ bg = currentImages[currentImageIndex + 1]
    /\ isCached(bg) /\ ~transitioning
    /\ preloadedImages = {} /\ TotalFades = 0

----------------------------------------------------------------------------
(* ProjectList: search and sort (SpecList) *)

ElementOf(p) == el[p.element]
Hidden(e) == e.display = "none" /\ ~e.active
Shown(e) == e.display = "" /\ e.active

\* C4: a search sets searchQuery to the lower-cased, trimmed input and hides
\* exactly the cached projects whose title, category and decimal year all
\* fail to contain it, showing the others; the projects array, the list's
\* elements and every other element stay as they are; with an empty query
\* every cached project is shown.
C4_SearchHidesNonMatching ==
    [][\A v \in Queries : OnSearch(v) =>
         LET q == trim(toLowerCase(v)) IN
           /\ searchQuery' = q
           /\ projects' = projects
           /\ dom' = dom
           /\ \A k \in DOMAIN projects :
                LET p == projects[k]
                    e == el'[p.element]
                    fails == /\ ~includes(p.title, q)
                             /\ ~includes(p.category, q)
                             /\ ~includes(toString(p.year), q)
                IN /\ fails => Hidden(e)
                   /\ ~fails => Shown(e)
                   /\ e.data = el[p.element].data
           /\ \A i \in ElIds :
                (\A k \in DOMAIN projects : projects[k].element # i) => el'[i] = el[i]
           /\ q = <<>> => \A k \in DOMAIN projects : Shown(el'[projects[k].element])]_vars

\* C4 witness: after a search for "7" one project is hidden and another one,
\* which matches by its year only, is shown; all of them are still listed
C4_Witness ==
    /\ searchQuery = <<"7">>
    /\ Len(projects) >= 2
    /\ \A k \in DOMAIN projects : projects[k].element \in DomSet
    /\ \E j, k \in DOMAIN projects :
         /\ Hidden(ElementOf(projects[j]))
         /\ Shown(ElementOf(projects[k]))
         /\ projects[k].year = 7
         /\ ~includes(projects[k].title, searchQuery)
         /\ ~includes(projects[k].category, searchQuery)

\* C5: initially the sort is by year, descending; a click on the button of
\* the current sort key keeps the key and flips the direction, and when the
\* click before it was such a click too, the direction is back to what it
\* was before the two.
C5_SortToggles ==
    /\ currentSort = "year" /\ sortDirection = "desc"
    /\ [][\A k \in SortKeys : (OnFilterClick(k) /\ k = currentSort) =>
            /\ currentSort' = currentSort
            /\ sortDirection' \in {"asc", "desc"}
            /\ sortDirection' # sortDirection
            /\ dirBefore # "none" => sortDirection' = dirBefore]_vars

\* C5 witness: two clicks on the year button, starting from the initial
\* sort, with projects in the list
C5_Witness ==
    /\ currentSort = "year" /\ sortDirection = "desc" /\ dirBefore = "asc"
    /\ Len(projects) >= 2

----------------------------------------------------------------------------
(* ContentLoader and ProjectList: hover preview (SpecHover) *)

\* C6 as stated: once ContentLoader.init() is through, a mouseenter on a
\* project item that carries preview images shows the preview box with the
\* item's first image, and the mouseleave after it hides the box.
C6_HoverShowsPreview ==
    /\ [][\A id \in ElIds :
            (MouseEnter(id) /\ projDone /\ updDone /\ supportsHover
               /\ el[id].data.preview # <<>>) =>
              (isPreviewVisible' /\ bg' = el[id].data.preview[1])]_vars
    /\ [][(MouseLeave /\ projDone /\ updDone) => ~isPreviewVisible']_vars

----------------------------------------------------------------------------
(* ImageLoader: injected nodes (SpecLazy) *)

\* C11 as stated, for the lazy images: an img[data-src] added to the document
\* after init is from then on treated as one that was there at init, with
\* IntersectionObserver (it is observed, to be swapped on entering the
\* viewport) and without it (its real source is set).
C11_InjectedLikeInitial ==
    [][\A i \in LazyImgs : \A u \in LazySrcs :
         InjectLazy(i, u) => lazy'[i] = LazyAtInit(u, ioSupported)]_vars

----------------------------------------------------------------------------
(* ImageLoader: preloadImages and getImage (SpecBatch, SpecGet) *)

\* where u occurs first in urls
FirstIndex(urls, u) ==
    CHOOSE k \in DOMAIN urls : urls[k] = u /\ \A j \in 1..(k - 1) : urls[j] # u

\* the loads of batch j of call c have all settled
BatchSettled(c, j) == \A p \in c.got[j] : Settled(promises[p].st)

\* C12: the batches of a preloadImages(urls) call are, one after the other
\* and in the order of urls, the distinct URLs that were not cached when it
\* was called, each batch with at most concurrentPreloads of them; and a
\* call has started loads of a batch only if all loads of the batches
\* before it have settled.
C12_BatchesInOrder ==
    /\ [][\A urls \in BatchLists : PreloadImagesCall(urls) =>
            LET c == calls'[Len(calls')]
                all == FlattenSeq(c.batches)
            IN /\ c.urls = urls
               /\ SeqSet(all) = {u \in SeqSet(urls) : cache[u] = 0}
               /\ \A a, b \in DOMAIN all :
                    a < b => FirstIndex(urls, all[a]) < FirstIndex(urls, all[b])
               /\ \A j \in DOMAIN c.batches :
                    /\ c.batches[j] # <<>>
                    /\ Len(c.batches[j]) <= ConcurrentPreloads]_vars
    /\ [](\A k \in DOMAIN calls :
            LET c == calls[k] IN
              /\ Len(c.got) <= Len(c.batches)
              /\ \A j \in DOMAIN c.got :
                   /\ {promises[p].url : p \in c.got[j]} = SeqSet(c.batches[j])
                   /\ j < Len(c.got) => BatchSettled(c, j)
              /\ \A p \in c.started : \E j \in DOMAIN c.got : p \in c.got[j])

\* C12 witness: a call with two batches has started the second one, after a
\* load of the first one failed
C12_Witness ==
    \E k \in DOMAIN calls :
       /\ Len(calls[k].batches) = 2
       /\ Len(calls[k].batches[1]) = ConcurrentPreloads
       /\ Len(calls[k].got) = 2
       /\ Cardinality(calls[k].started) = ConcurrentPreloads + 1
       /\ \E p \in calls[k].got[1] : promises[p].st = "rejected"
       /\ \E p \in calls[k].got[2] : promises[p].st = "loading"

\* a load of u has come to its end, with the image or with an error
FinishedLoading(u) ==
    \E p \in DOMAIN promises : promises[p].url = u /\ Settled(promises[p].st)

\* C14 as stated: when the promise of a preloadImages(urls) call has
\* resolved, every URL of urls has finished loading.
C14_ResolvesAfterAllLoaded ==
    \A k \in DOMAIN calls :
       calls[k].resolved => \A u \in SeqSet(calls[k].urls) : FinishedLoading(u)

\* the loads in flight that preloadImages calls have started
BatchLoadsInFlight ==
    {p \in DOMAIN promises :
       /\ ~Settled(promises[p].st)
       /\ \E k \in DOMAIN calls : p \in calls[k].started}

\* C15 as stated: never more than concurrentPreloads loads started by
\* preloadImages are in flight.
C15_AtMostFourInFlight == Cardinality(BatchLoadsInFlight) <= ConcurrentPreloads

\* C16: getImage(url) starts a load of url exactly when the cache has no
\* entry for it, and otherwise takes the cached load; its promise is
\* resolved, to url, exactly when that load has completed with the image,
\* and rejected exactly when that load has failed.
C16_GetImageFollowsLoad ==
    /\ [][\A u \in GetUrls : GetImageCall(u) =>
            LET g == gets'[Len(gets')] IN
              /\ g.url = u
              /\ promises'[g.p].url = u
              /\ isCached(u) => (promises' = promises /\ g.p = cache[u])
              /\ ~isCached(u) => /\ Len(promises') = Len(promises) + 1
                                 /\ g.p = Len(promises')
                                 /\ promises'[g.p].st = "loading"
                                 /\ SubSeq(promises', 1, Len(promises)) = promises]_vars
    /\ [](\A k \in DOMAIN gets :
            LET g == gets[k] IN
              /\ g.st = "resolved" <=> promises[g.p].st = "resolved"
              /\ g.st = "rejected" <=> promises[g.p].st = "rejected"
              /\ g.st \in {"pending", "resolved", "rejected"}
              /\ promises[g.p].url = g.url)

\* C16 witness: one getImage call took a load that was in flight and has
\* resolved with it, another started a load and was rejected when it failed
C16_Witness ==
    \E j, k \in DOMAIN gets :
       /\ ~gets[j].fresh /\ gets[j].st = "resolved"
       /\ gets[k].fresh /\ gets[k].st = "rejected"

----------------------------------------------------------------------------
(* ContentLoader.init: failing loaders (SpecInit) *)

\* C13: when loadProjects() fails the project list shows the one fallback
\* item and the updates container is as it was; when loadUpdates() fails
\* the updates container shows its fallback item and the project list has
\* the items it had; and whichever of them failed, when the second of the
\* two is through, ProjectList has cached exactly the items of the list
\* and, with an ImageLoader, every preview URL in the list is in its cache.
C13_FallbackAndInitCompletes ==
    [][/\ LoadProjects(FALSE, <<>>) =>
            /\ Len(dom') = 1
            /\ el'[dom'[1]].data = Placeholder
            /\ el'[dom'[1]].display = ""
            /\ updates' = updates
       /\ LoadUpdates(FALSE) =>
            /\ updates' = "fallback"
            /\ dom' = dom
            /\ \A i \in DomSet : /\ el'[i].data = el[i].data
                                 /\ el'[i].display = el[i].display
       /\ (projDone' /\ updDone' /\ ~(projDone /\ updDone)) =>
            /\ Len(projects') = Len(dom')
            /\ \A k \in DOMAIN dom' :
                 /\ projects'[k].element = dom'[k]
                 /\ imageLoaderPresent =>
                      \A u \in SeqSet(el'[dom'[k]].data.preview) : cache'[u] # 0]_vars

\* C13 witness: init() is through after loadProjects() failed and
\* loadUpdates() succeeded: fallback item cached, updates rendered
C13_Witness ==
    /\ projDone /\ updDone
    /\ updates = "rendered"
    /\ Len(dom) = 1
    /\ el[dom[1]].data = Placeholder
    /\ Len(projects) = 1
    /\ projects[1].element = dom[1]

----------------------------------------------------------------------------
(* ContentLoader: the preview box under interleavings (SpecSlide) *)

\* C17 as stated: the background image of the preview box is a URL of the
\* current image list, whenever there is one.
C17_BackgroundFromCurrentList ==
    currentImages # <<>> => bg \in SeqSet(currentImages)

\* C18: never more than one slideshow interval is active, and the one that
\* is active is the one this.slideshowInterval refers to; a showPreviewBox
\* that comes while a slideshow is running leaves at most one.
C18_OneTimer ==
    /\ [](timers \in {0, 1} /\ (timers = 1 <=> slideshowInterval))
    /\ [][\A images \in PreviewLists :
            (ShowPreviewBox(images) /\ timers = 1 /\ isPreviewVisible) =>
               timers' = (IF supportsHover /\ Len(images) <= 1 THEN 0 ELSE 1)]_vars

\* C18 witness: a slideshow is running that was started after a fade-path
\* load of an earlier slideshow had begun, which is still in flight
C18_Witness ==
    /\ timers = 1 /\ isPreviewVisible /\ ticks = 0
    /\ Len(currentImages) = 3
    /\ fades["b.jpg"] > 0

\* C19: a slideshow interval is active only while the preview box is
\* visible and shows more than one image; while the box is hidden no tick
\* fires, and currentImageIndex changes only by a showPreviewBox.
C19_TimerOnlyWhileVisible ==
    /\ [](timers > 0 => (isPreviewVisible /\ Len(currentImages) > 1))
    /\ [][Tick => isPreviewVisible]_vars
    /\ [][HidePreviewBox => (timers' = 0 /\ ~isPreviewVisible')]_vars
    /\ [][(~isPreviewVisible /\ currentImageIndex' # currentImageIndex) =>
            isPreviewVisible']_vars

\* C19 witness: the box was hidden in the middle of a slideshow
C19_Witness ==
    /\ ~isPreviewVisible /\ timers = 0
    /\ Len(currentImages) = 3 /\ currentImageIndex = 2 /\ ticks = 2

\* C20: the index is within the current list, whenever there is one; a
\* showPreviewBox puts it back to the first image.
C20_IndexInRange ==
    /\ [](currentImages # <<>> =>
            (0 <= currentImageIndex /\ currentImageIndex < Len(currentImages)))
    /\ [][\A images \in PreviewLists :
            (ShowPreviewBox(images) /\ supportsHover) =>
               (currentImages' = images /\ currentImageIndex' = 0)]_vars

\* C20 witness: a single image is shown while a fade-path load for the
\* second image of a three-image slideshow is still in flight
C20_Witness ==
    /\ isPreviewVisible
    /\ currentImages = <<"a.jpg">> /\ currentImageIndex = 0
    /\ fades["c.jpg"] > 0

----------------------------------------------------------------------------
(* ProjectList: sorting and filtering in every reachable state (SpecList) *)

\* a comes before b, or ties with it, under sort key and direction
InOrder(a, b, key, direction) ==
    LET cmp == IF key = "year" THEN a.year - b.year
               ELSE localeCompare(KeyOf(a, key), KeyOf(b, key))
    IN IF direction = "asc" THEN cmp <= 0 ELSE cmp >= 0

\* C24 as stated: after a sort click the projects array holds the projects it
\* held before, each once, ordered by the current key in the current
\* direction, and the project list shows their elements in that order.
C24_SortedPermutation ==
    [][\A key \in SortKeys : OnFilterClick(key) =>
         /\ Len(projects') = Len(projects)
         /\ SeqSet(projects') = SeqSet(projects)
         /\ \A i, j \in DOMAIN projects' :
              i < j => InOrder(projects'[i], projects'[j], currentSort', sortDirection')
         /\ dom' = [k \in DOMAIN projects' |-> projects'[k].element]]_vars

\* C23 as stated: the element of a cached project is visible exactly when the
\* project's title, category or decimal year contains the current
\* searchQuery (every project matches the empty query).
C23_VisibleIffMatches ==
    \A k \in DOMAIN projects :
       LET p == projects[k] IN
         (ElementOf(p).display # "none") <=>
            \/ includes(p.title, searchQuery)
            \/ includes(p.category, searchQuery)
            \/ includes(toString(p.year), searchQuery)

----------------------------------------------------------------------------
(* ContentLoader: indicators and fades (SpecSlide, SpecSlideFair) *)

\* C21 as stated: an active indicator dot stands at the position that the
\* image shown as the background has in currentImages.
C21_ActiveDotIsShownImage ==
    \A k \in DOMAIN dots :
       dots[k] => (k \in DOMAIN currentImages /\ currentImages[k] = bg)

\* C22 as stated: when the preview image has the class 'transitioning', a
\* state follows in which it has not (or the count of ticks is at its bound,
\* where the slideshow is followed no further).
C22_FadeEnds == transitioning ~> (~transitioning \/ ticks = MaxTicks)

====
